---- MODULE Spec2Model ----
(***************************************************************************)
(* A model of src/src/backup_engine.py: the BackupEngine class over its    *)
(* three SQLite tables (jobs, backups, chunks).                            *)
(*                                                                         *)
(* Modelling notes.                                                        *)
(*  - The tables are modelled with the schema _init_db declares (columns   *)
(*    and PRIMARY KEYs).  SQLite itself rejects the chunks statement       *)
(*    (the column name "references" is a reserved word), so the class as   *)
(*    shipped raises in its constructor; the model describes the engine    *)
(*    over the declared schema.                                            *)
(*  - Every method opens its own connection.  Python's sqlite3 opens a     *)
(*    transaction implicitly before the first INSERT/UPDATE/DELETE of a    *)
(*    connection and holds the database write lock until commit; SELECTs   *)
(*    outside a transaction read the committed tables.  A connection that  *)
(*    cannot get the write lock waits up to the 5 s default timeout and    *)
(*    then raises OperationalError("database is locked").  An exception    *)
(*    leaves the method without commit: the transaction is rolled back.    *)
(*  - File contents are byte sequences; sha256 and zlib are tabulated on   *)
(*    the chunks the modelled file system holds (the real values).         *)
(*  - datetime.utcnow() is a clock that every read advances.               *)
(*  - Specifications: Spec (one caller, every method), SpecTamper (Spec    *)
(*    and a chunk row removed by hand), SpecFault (one caller over trees   *)
(*    with an unreadable file, an empty file and a missing path), SpecConc *)
(*    (two callers of run_backup), SpecOverlap (SpecConc and a caller of   *)
(*    prune).                                                              *)
(***************************************************************************)
EXTENDS Integers, Sequences, FiniteSets, TLC

VARIABLES
    jobs,      \* table jobs: set of rows (PRIMARY KEY id)
    backups,   \* table backups: set of rows (PRIMARY KEY id)
    chunks,    \* table chunks: sequence of rows in rowid order
    clock,     \* datetime.utcnow()
    conn,      \* per process: the run_backup call in progress (locals, open transaction)
    writer,    \* the process holding the database write lock, 0 when free
    ret,       \* per process: how its last run_backup call ended
    lastOp     \* the last call of a method other than a started run_backup, and its result

vars == <<jobs, backups, chunks, clock, conn, writer, ret, lastOp>>

----------------------------------------------------------------------------
(* Bounds *)

MaxJobs == 2
MaxClock == 11

\* the last clock reading by which the calls of the concurrent specification end
MaxConcClock == 9

\* Length of a calendar week / month in clock ticks (used by the retention policy
\* of the specification only; the code never looks at the calendar).
TicksPerWeek == 8
TicksPerMonth == 16

Procs == {1, 2}

----------------------------------------------------------------------------
(* Program constants *)

CHUNK_SIZE == 4096

\* b"CHUNK_DATA_PLACEHOLDER"
PLACEHOLDER ==
    <<67, 72, 85, 78, 75, 95, 68, 65, 84, 65, 95, 80, 76, 65, 67, 69, 72, 79, 76, 68, 69, 82>>

----------------------------------------------------------------------------
(* The file system the jobs back up *)

Rep(b, n) == [i \in 1..n |-> b]

BlockA == Rep(97, CHUNK_SIZE)
ByteA == <<97>>
ByteB == <<98>>
ByteC == <<99>>
Text69235 == <<54, 57, 50, 51, 53>>
Text95303 == <<57, 53, 51, 48, 51>>

\* a file the process may read, and one whose open() raises PermissionError
File(rel, data) == [rel |-> rel, data |-> data, readable |-> TRUE]
Unreadable(rel) == [rel |-> rel, data |-> <<>>, readable |-> FALSE]

\* Directory trees by source path; the files of each in os.walk order (the files
\* of a directory before those of its subdirectories), with their relative paths.
FS ==
    [p \in {"/d1", "/d2", "/d3", "/d4", "/d5", "/d6"} |->
        CASE p = "/d1" -> << File(<<"x.bin">>, Rep(97, 2 * CHUNK_SIZE + 1)) >>
          [] p = "/d2" -> << File(<<"p.bin">>, BlockA), File(<<"q.bin">>, BlockA) >>
          [] p = "/d3" -> << File(<<"keep.txt">>, ByteB),
                             File(<<"cache", "big.bin">>, ByteC) >>
          [] p = "/d4" -> << File(<<"m.txt">>, Text69235), File(<<"n.txt">>, Text95303) >>
          [] p = "/d5" -> << File(<<"a.txt">>, ByteA), Unreadable(<<"secret.key">>) >>
          [] p = "/d6" -> << File(<<"empty.log">>, <<>>) >>]

\* hashlib.sha256(chunk_data).hexdigest(), as <<first 8 hex digits, the other 56>>
Sha256(data) ==
    CASE data = BlockA ->
            <<"c93eee2d", "0db02f10acc7460d9576e122dcf8cd53c4bf8dfcae1b3e74ebcfff5a">>
      [] data = ByteA ->
            <<"ca978112", "ca1bbdcafac231b39a23dc4da786eff8147c4e72b9807785afee48bb">>
      [] data = ByteB ->
            <<"3e23e816", "0039594a33894f6564e1b1348bbd7a0088d42c4acb73eeaed59c009d">>
      [] data = ByteC ->
            <<"2e7d2c03", "a9507ae265ecf5b5356885a53393a2029d241394997265a1a25aefc6">>
      [] data = Text69235 ->
            <<"c11eb5e6", "486032421f48e55fe2846bd147ce254335590eb095bf7230e99c5519">>
      [] data = Text95303 ->
            <<"c11eb5e6", "b0d967bbb208d9f919ce3c1bfdc84ac7d9d8dc1f7beb8721ccd1791d">>

\* len(zlib.compress(chunk_data, 6))
ZlibLen(data) ==
    CASE data = BlockA -> 28
      [] data \in {ByteA, ByteB, ByteC} -> 9
      [] data \in {Text69235, Text95303} -> 13

\* the f.read(CHUNK_SIZE) loop: the chunks of a file, in order
RECURSIVE ReadChunks(_)
ReadChunks(data) ==
    IF Len(data) = 0 THEN <<>>
    ELSE IF Len(data) <= CHUNK_SIZE THEN <<data>>
    ELSE <<SubSeq(data, 1, CHUNK_SIZE)>>
             \o ReadChunks(SubSeq(data, CHUNK_SIZE + 1, Len(data)))

\* what the walk hashes for one chunk
ChunkItem(rel, chunk_data) ==
    [rel |-> rel, readable |-> TRUE, sha256 |-> Sha256(chunk_data),
     size |-> Len(chunk_data), zlen |-> ZlibLen(chunk_data)]

\* line 93 for a file that cannot be opened: open() raises
OpenError(rel) ==
    [rel |-> rel, readable |-> FALSE, sha256 |-> <<"", "">>, size |-> 0, zlen |-> 0]

\* the steps of the walk in one file: its chunks, or the failing open()
FileItems(file) ==
    IF file.readable
      THEN LET cs == ReadChunks(file.data)
           IN  [i \in 1..Len(cs) |-> ChunkItem(file.rel, cs[i])]
      ELSE << OpenError(file.rel) >>

RECURSIVE FilesItems(_)
FilesItems(files) ==
    IF files = <<>> THEN <<>>
    ELSE FileItems(Head(files)) \o FilesItems(Tail(files))

\* the loops of lines 88-92 over a job's source paths: every file of every
\* existing source path is read, whatever the job's exclude_patterns are
RECURSIVE WalkItems(_)
WalkItems(source_paths) ==
    IF source_paths = <<>> THEN <<>>
    ELSE (IF Head(source_paths) \in DOMAIN FS
            THEN FilesItems(FS[Head(source_paths)]) ELSE <<>>)
         \o WalkItems(Tail(source_paths))

\* create_job's arguments
JobInputs ==
    { [name |-> "docs",  source_paths |-> <<"/d1">>, exclude_patterns |-> <<>>],
      [name |-> "twins", source_paths |-> <<"/d2">>, exclude_patterns |-> <<>>],
      [name |-> "site",  source_paths |-> <<"/d3">>, exclude_patterns |-> <<"cache">>],
      [name |-> "notes", source_paths |-> <<"/d4", "/nope">>, exclude_patterns |-> <<>>] }

ConcJobInputs == {i \in JobInputs : i.name \in {"docs", "twins"}}

\* create_job's arguments for jobs over trees with an unreadable file, with a
\* file of no bytes, and over a path that does not exist
FaultJobInputs ==
    { [name |-> "twins",  source_paths |-> <<"/d2">>, exclude_patterns |-> <<>>],
      [name |-> "locked", source_paths |-> <<"/d2", "/d5">>, exclude_patterns |-> <<>>],
      [name |-> "empty",  source_paths |-> <<"/d6", "/nope">>, exclude_patterns |-> <<>>] }

\* the walk of each job input, computed once
Items ==
    [sp \in {i.source_paths : i \in JobInputs \cup FaultJobInputs} |-> WalkItems(sp)]

----------------------------------------------------------------------------
(* Identifiers and rows *)

\* hashlib.md5(f"{name}{utcnow}")[:12], taken as injective on (name, time)
JobId(name, t) == <<name, t>>

\* hashlib.md5(f"{job_id}{utcnow}")[:12], taken as injective on (job_id, time)
BackupId(job_id, t) == <<job_id, t>>

\* identifiers no row carries (the clock starts at 1)
NoJob == JobId("nojob", 0)
NoBackup == BackupId(NoJob, 0)

\* f"chunk_{sha256[:8]}"
ChunkId(sha256) == <<"chunk_", sha256[1]>>

\* the row create_job inserts; last_run is <<>> for NULL and <<t>> once set
JobRow(job_id, inp) ==
    [id |-> job_id, name |-> inp.name, source_paths |-> inp.source_paths,
     exclude_patterns |-> inp.exclude_patterns, last_run |-> <<>>,
     size_bytes |-> 0, status |-> "idle"]

\* the row run_backup inserts for a chunk it did not find; references is json.dumps({})
ChunkRow(item) ==
    [id |-> ChunkId(item.sha256), sha256 |-> item.sha256, size |-> item.size,
     compressed_size |-> item.zlen, references |-> <<>>]

\* compressed_size / total_size if total_size > 0 else 0, as <<numerator, denominator>>
DedupRatio(compressed_size, total_size) ==
    IF total_size > 0 THEN <<compressed_size, total_size>> ELSE <<0, 1>>

----------------------------------------------------------------------------
(* chunks_used: a Python dict, as the sequence of its items in insertion order *)

DictHas(d, k) == \E i \in 1..Len(d) : d[i].sha256 = k

DictGet(d, k, default) ==
    IF DictHas(d, k) THEN d[CHOOSE i \in 1..Len(d) : d[i].sha256 = k].count ELSE default

DictSet(d, k, v) ==
    IF DictHas(d, k)
      THEN [i \in 1..Len(d) |-> IF d[i].sha256 = k THEN [sha256 |-> k, count |-> v] ELSE d[i]]
      ELSE Append(d, [sha256 |-> k, count |-> v])

----------------------------------------------------------------------------
(* SQL on the chunks table *)

\* SELECT ... FROM chunks WHERE sha256 = ?  followed by fetchone(): the rows found
\* (fetchone takes the first)
SelectChunk(table, sha256) == SelectSeq(table, LAMBDA r : r.sha256 = sha256)

\* (mutant) the table declared without its PRIMARY KEY
PkConflict_NoKey(table, row) == FALSE

\* chunks.id is the PRIMARY KEY: an INSERT of a row whose id is present fails
PkConflict(table, row) == \E i \in 1..Len(table) : table[i].id = row.id

\* a connection that does not read its own uncommitted inserts
View_Committed(p) == chunks

\* what connection p reads: the committed table and its own uncommitted inserts
View(p) == chunks \o conn[p].pending

----------------------------------------------------------------------------
(* State *)

IdleConn ==
    [pc |-> "idle", job_id |-> NoJob, backup_id |-> NoBackup, source_paths |-> <<>>,
     pos |-> 0, chunks_used |-> <<>>, total_size |-> 0, compressed_size |-> 0,
     pending |-> <<>>, missed |-> {}, peers |-> {}]

\* kind: "none" before the first call, "ok" (backup_id returned), "None" (returned
\* None) or the exception raised.  run, missed and peers record which call it was,
\* the digests its SELECT did not find, and the calls that ran while it ran.
NoRet == [kind |-> "none", backup_id |-> NoBackup, run |-> NoBackup, missed |-> {},
          peers |-> {}]

\* op: the call; id, job, keep: its arguments; ok, n: the value returned (restore and
\* verify return a bool, prune a count); missing: the digests the returned value
\* names; out: the files restore wrote; deleted: the rows prune deleted
NoOp ==
    [op |-> "none", id |-> NoBackup, job |-> NoJob, keep |-> <<0, 0, 0>>, ok |-> FALSE,
     n |-> 0, missing |-> <<>>, out |-> <<>>, deleted |-> {}]

Init ==
    /\ jobs = {}
    /\ backups = {}
    /\ chunks = <<>>
    /\ clock = 1
    /\ conn = [p \in Procs |-> IdleConn]
    /\ writer = 0
    /\ ret = [p \in Procs |-> NoRet]
    /\ lastOp = NoOp

AllIdle == \A p \in Procs : conn[p].pc = "idle"

----------------------------------------------------------------------------
(* create_job *)

CreateJob(inp) ==
    /\ AllIdle
    /\ Cardinality(jobs) < MaxJobs
    /\ clock < MaxClock
    /\ jobs' = jobs \cup {JobRow(JobId(inp.name, clock), inp)}
    /\ clock' = clock + 1
    /\ lastOp' = [NoOp EXCEPT !.op = "create_job"]
    /\ UNCHANGED <<backups, chunks, conn, writer, ret>>

----------------------------------------------------------------------------
(* run_backup, one action per database statement *)

\* an exception path that commits what the call had inserted so far
Raise_Commit(p, err) ==
    /\ conn' = [conn EXCEPT ![p] = IdleConn]
    /\ writer' = IF writer = p THEN 0 ELSE writer
    /\ ret' = [ret EXCEPT ![p] = [kind |-> err, backup_id |-> NoBackup,
                                  run |-> conn[p].backup_id,
                                  missed |-> conn[p].missed, peers |-> conn[p].peers]]
    /\ chunks' = chunks \o conn[p].pending
    /\ UNCHANGED <<jobs, backups, clock, lastOp>>

\* the exception leaves run_backup: nothing is committed, the lock is released
Raise(p, err) ==
    /\ conn' = [conn EXCEPT ![p] = IdleConn]
    /\ writer' = IF writer = p THEN 0 ELSE writer
    /\ ret' = [ret EXCEPT ![p] = [kind |-> err, backup_id |-> NoBackup,
                                  run |-> conn[p].backup_id,
                                  missed |-> conn[p].missed, peers |-> conn[p].peers]]
    /\ UNCHANGED <<jobs, backups, chunks, clock, lastOp>>

\* a lookup without its WHERE clause
SelectJob_Any(table, job_id) == table

\* SELECT * FROM jobs WHERE id = ?
SelectJob(table, job_id) == {j \in table : j.id = job_id}

\* lines 74-86: look the job up; None when there is none
RbBegin(p, job_id) ==
    /\ conn[p].pc = "idle"
    /\ clock + 3 <= MaxClock
    /\ lastOp' = [NoOp EXCEPT !.op = "run_backup", !.job = job_id]
    /\ LET rows == SelectJob(jobs, job_id)
       IN  IF rows = {}
             THEN /\ ret' = [ret EXCEPT ![p] = [NoRet EXCEPT !.kind = "None"]]
                  /\ UNCHANGED <<jobs, backups, chunks, clock, conn, writer>>
             ELSE LET job_row == CHOOSE j \in rows : TRUE
                      backup_id == BackupId(job_id, clock)
                      running == {q \in Procs : conn[q].pc # "idle"}
                  IN  /\ conn' = [q \in Procs |->
                            IF q = p
                              THEN [IdleConn EXCEPT
                                      !.pc = "walk",
                                      !.job_id = job_id,
                                      !.backup_id = backup_id,
                                      !.source_paths = job_row.source_paths,
                                      !.pos = 1,
                                      !.peers = {conn[r].backup_id : r \in running}]
                              ELSE IF q \in running
                                     THEN [conn[q] EXCEPT !.peers = @ \cup {backup_id}]
                                     ELSE conn[q]]
                      /\ clock' = clock + 1
                      /\ UNCHANGED <<jobs, backups, chunks, writer, ret>>

\* lines 95-107: read the next chunk, hash it, look it up; count it when found
RbSelect(p) ==
    /\ conn[p].pc = "walk"
    /\ conn[p].pos <= Len(Items[conn[p].source_paths])
    /\ Items[conn[p].source_paths][conn[p].pos].readable
    /\ LET c == conn[p]
           item == Items[c.source_paths][c.pos]
           existing == SelectChunk(View(p), item.sha256)
       IN  conn' = [conn EXCEPT ![p] =
              IF existing # <<>>
                THEN [c EXCEPT !.total_size = @ + item.size,
                               !.chunks_used =
                                   DictSet(@, item.sha256, DictGet(@, item.sha256, 0) + 1),
                               !.compressed_size = @ + existing[1].compressed_size,
                               !.pos = @ + 1]
                ELSE [c EXCEPT !.total_size = @ + item.size,
                               !.pc = "insert",
                               !.missed = @ \cup {item.sha256}]]
    /\ UNCHANGED <<jobs, backups, chunks, clock, writer, ret, lastOp>>

\* line 93: the next file cannot be opened; the exception leaves run_backup
RbOpenFail(p) ==
    /\ conn[p].pc = "walk"
    /\ conn[p].pos <= Len(Items[conn[p].source_paths])
    /\ ~Items[conn[p].source_paths][conn[p].pos].readable
    /\ Raise(p, "PermissionError")

\* lines 109-119: insert the chunk that was not found
RbInsert(p) ==
    /\ conn[p].pc = "insert"
    /\ writer \in {0, p}
    /\ LET c == conn[p]
           item == Items[c.source_paths][c.pos]
           row == ChunkRow(item)
       IN  IF PkConflict(View(p), row)
             THEN Raise(p, "IntegrityError")
             ELSE /\ conn' = [conn EXCEPT ![p] =
                        [c EXCEPT !.pending = Append(@, row),
                                  !.chunks_used = DictSet(@, item.sha256, 1),
                                  !.compressed_size = @ + item.zlen,
                                  !.pos = @ + 1,
                                  !.pc = "walk"]]
                  /\ writer' = p
                  /\ UNCHANGED <<jobs, backups, chunks, clock, ret, lastOp>>

\* an INSERT that waited for the write lock longer than the connection's timeout
RbBusy(p) ==
    /\ \/ conn[p].pc = "insert"
       \/ conn[p].pc = "walk" /\ conn[p].pos > Len(Items[conn[p].source_paths])
    /\ writer \notin {0, p}
    /\ Raise(p, "OperationalError")

\* an insert that replaces the job's earlier backups by the new row
InsertBackup_Replace(table, row) == {b \in table : b.job_id # row.job_id} \cup {row}

\* INSERT INTO backups VALUES (...)
InsertBackup(table, row) == table \cup {row}

\* lines 121-128: record the backup, update the job, commit
RbFinish(p) ==
    /\ conn[p].pc = "walk"
    /\ conn[p].pos > Len(Items[conn[p].source_paths])
    /\ writer \in {0, p}
    /\ LET c == conn[p]
       IN  /\ backups' = InsertBackup(backups,
                   [id |-> c.backup_id, job_id |-> c.job_id, timestamp |-> clock,
                    size_bytes |-> c.total_size,
                    dedup_ratio |-> DedupRatio(c.compressed_size, c.total_size),
                    chunk_ids |-> c.chunks_used])
           /\ jobs' = {IF j.id = c.job_id
                         THEN [j EXCEPT !.last_run = <<clock + 1>>,
                                        !.size_bytes = c.total_size,
                                        !.status = "completed"]
                         ELSE j : j \in jobs}
           /\ chunks' = chunks \o c.pending
           /\ ret' = [ret EXCEPT ![p] = [kind |-> "ok", backup_id |-> c.backup_id,
                                         run |-> c.backup_id,
                                         missed |-> c.missed, peers |-> c.peers]]
    /\ clock' = clock + 2
    /\ conn' = [conn EXCEPT ![p] = IdleConn]
    /\ writer' = 0
    /\ UNCHANGED lastOp

----------------------------------------------------------------------------
(* restore *)

\* lines 160-167: for each key of the manifest whose chunk row exists, the file
\* restored_<first 8 hex digits> is written with the placeholder bytes
RECURSIVE RestoreWrites(_, _)
RestoreWrites(chunk_refs, table) ==
    IF chunk_refs = <<>> THEN <<>>
    ELSE (IF SelectChunk(table, Head(chunk_refs).sha256) # <<>>
            THEN << [name |-> <<"restored_", Head(chunk_refs).sha256[1]>>,
                     data |-> PLACEHOLDER] >>
            ELSE <<>>)
         \o RestoreWrites(Tail(chunk_refs), table)

\* the value restore returns
RestoreResult(rows) == rows # {}

Restore(backup_id) ==
    /\ AllIdle
    /\ LET rows == {b \in backups : b.id = backup_id}
       IN  lastOp' = [NoOp EXCEPT
              !.op = "restore",
              !.id = backup_id,
              !.ok = RestoreResult(rows),
              !.missing = <<>>,
              !.out = IF rows = {} THEN <<>>
                      ELSE RestoreWrites((CHOOSE b \in rows : TRUE).chunk_ids, chunks)]
    /\ UNCHANGED <<jobs, backups, chunks, clock, conn, writer, ret>>

----------------------------------------------------------------------------
(* verify *)

\* lines 190-204: False for an unknown backup and when a key of the manifest has
\* no chunk row, True otherwise
VerifyResult(rows, table) ==
    /\ rows # {}
    /\ \A b \in rows : \A i \in 1..Len(b.chunk_ids) :
           SelectChunk(table, b.chunk_ids[i].sha256) # <<>>

Verify(backup_id) ==
    /\ AllIdle
    /\ lastOp' = [NoOp EXCEPT
          !.op = "verify",
          !.id = backup_id,
          !.ok = VerifyResult({b \in backups : b.id = backup_id}, chunks),
          !.missing = <<>>]
    /\ UNCHANGED <<jobs, backups, chunks, clock, conn, writer, ret>>

----------------------------------------------------------------------------
(* prune *)

\* SELECT id FROM backups WHERE job_id = ? ORDER BY timestamp DESC
RECURSIVE OrderByTimestampDesc(_)
OrderByTimestampDesc(rows) ==
    IF rows = {} THEN <<>>
    ELSE LET first == CHOOSE b \in rows : \A o \in rows : o.timestamp <= b.timestamp
         IN  <<first.id>> \o OrderByTimestampDesc(rows \ {first})

\* a slice that counts keep_daily only
ToDelete_DailyOnly(ids, keep_daily, keep_weekly, keep_monthly) ==
    SubSeq(ids, keep_daily + 1, Len(ids))

\* backups[keep_daily + keep_weekly + keep_monthly:]
ToDelete(ids, keep_daily, keep_weekly, keep_monthly) ==
    SubSeq(ids, keep_daily + keep_weekly + keep_monthly + 1, Len(ids))

\* (mutant) prune also deletes every chunk a deleted backup lists
PruneChunks_Reclaim(table, deleted) ==
    SelectSeq(table, LAMBDA r :
        \A b \in deleted : \A i \in 1..Len(b.chunk_ids) : b.chunk_ids[i].sha256 # r.sha256)

\* the chunks table after prune: prune issues no statement on it
PruneChunks(table, deleted) == table

\* prune's keep_daily, keep_weekly, keep_monthly
PruneArgs == { <<0, 0, 0>>, <<1, 0, 0>>, <<1, 2, 0>>, <<7, 4, 12>> }

Prune(job_id, keep) ==
    /\ AllIdle
    /\ LET ids == OrderByTimestampDesc({b \in backups : b.job_id = job_id})
           to_delete == ToDelete(ids, keep[1], keep[2], keep[3])
           gone == {b \in backups : \E i \in 1..Len(to_delete) : to_delete[i] = b.id}
       IN  /\ backups' = backups \ gone
           /\ chunks' = PruneChunks(chunks, gone)
           /\ lastOp' = [NoOp EXCEPT !.op = "prune", !.job = job_id, !.keep = keep,
                                     !.n = Len(to_delete), !.deleted = gone]
    /\ UNCHANGED <<jobs, clock, conn, writer, ret>>

\* prune called while run_backup calls are in progress: nothing in prune or in
\* run_backup looks for the other.  Its SELECT reads the committed table; its
\* DELETEs need the write lock, which it gets when no call holds it.
PruneDuring(job_id, keep) ==
    /\ ~AllIdle
    /\ LET ids == OrderByTimestampDesc({b \in backups : b.job_id = job_id})
           to_delete == ToDelete(ids, keep[1], keep[2], keep[3])
           gone == {b \in backups : \E i \in 1..Len(to_delete) : to_delete[i] = b.id}
       IN  /\ writer = 0 \/ to_delete = <<>>
           /\ backups' = backups \ gone
           /\ chunks' = PruneChunks(chunks, gone)
           /\ lastOp' = [NoOp EXCEPT !.op = "prune", !.job = job_id, !.keep = keep,
                                     !.n = Len(to_delete), !.deleted = gone]
    /\ UNCHANGED <<jobs, clock, conn, writer, ret>>

\* the first DELETE waited for the write lock longer than the connection's
\* timeout: prune raises OperationalError after its SELECT, deleting nothing
PruneBusy(job_id, keep) ==
    /\ LET ids == OrderByTimestampDesc({b \in backups : b.job_id = job_id})
       IN  /\ writer # 0
           /\ ToDelete(ids, keep[1], keep[2], keep[3]) # <<>>
    /\ lastOp' = [NoOp EXCEPT !.op = "prune", !.job = job_id, !.keep = keep,
                              !.out = <<"OperationalError">>]
    /\ UNCHANGED <<jobs, backups, chunks, clock, conn, writer, ret>>

----------------------------------------------------------------------------
(* Outside the engine: a row of the chunks table is removed by hand *)

RemoveAt(table, i) == SubSeq(table, 1, i - 1) \o SubSeq(table, i + 1, Len(table))

RemoveChunk(i) ==
    /\ AllIdle
    /\ i \in 1..Len(chunks)
    /\ chunks' = RemoveAt(chunks, i)
    /\ lastOp' = [NoOp EXCEPT !.op = "remove_chunk"]
    /\ UNCHANGED <<jobs, backups, clock, conn, writer, ret>>

----------------------------------------------------------------------------
(* list_backups and get_stats *)

\* job_id = None: the backups of every job
AllJobs == <<>>

\* datetime.fromtimestamp(row[2]).isoformat()
IsoFormat(timestamp) == <<"iso", timestamp>>

RECURSIVE ListRows(_)
ListRows(rows) ==
    IF rows = {} THEN <<>>
    ELSE LET row == CHOOSE b \in rows : \A o \in rows : o.timestamp <= b.timestamp
         IN  << [id |-> row.id, job_id |-> row.job_id,
                 timestamp |-> IsoFormat(row.timestamp),
                 size_bytes |-> row.size_bytes, dedup_ratio |-> row.dedup_ratio] >>
             \o ListRows(rows \ {row})

ListBackups(job_id) ==
    /\ AllIdle
    /\ lastOp' = [NoOp EXCEPT
           !.op = "list_backups",
           !.job = job_id,
           !.out = IF job_id # AllJobs
                     THEN ListRows({b \in backups : b.job_id = job_id})
                     ELSE ListRows(backups)]
    /\ UNCHANGED <<jobs, backups, chunks, clock, conn, writer, ret>>

RECURSIVE SumSize(_)
SumSize(table) == IF table = <<>> THEN 0 ELSE Head(table).size + SumSize(Tail(table))

RECURSIVE SumCompressed(_)
SumCompressed(table) ==
    IF table = <<>> THEN 0 ELSE Head(table).compressed_size + SumCompressed(Tail(table))

\* line 216, as the fraction <<numerator, denominator>>
StatsRatio(compressed_total, total_size) ==
    IF total_size > 0 THEN <<compressed_total, total_size>> ELSE <<1, 1>>

GetStats ==
    /\ AllIdle
    /\ lastOp' = [NoOp EXCEPT
           !.op = "get_stats",
           !.out = << [total_chunks |-> Len(chunks),
                       total_size_bytes |-> SumSize(chunks),
                       compressed_bytes |-> SumCompressed(chunks),
                       dedup_ratio |-> StatsRatio(SumCompressed(chunks), SumSize(chunks)),
                       space_saved_bytes |-> SumSize(chunks) - SumCompressed(chunks)] >>]
    /\ UNCHANGED <<jobs, backups, chunks, clock, conn, writer, ret>>

----------------------------------------------------------------------------
(* Specifications *)

JobIds == {j.id : j \in jobs} \cup {NoJob}
BackupIds == {b.id : b \in backups} \cup {NoBackup}

\* one caller: the calls follow one another
Next ==
    \/ \E inp \in JobInputs : CreateJob(inp)
    \/ \E job_id \in JobIds : RbBegin(1, job_id)
    \/ RbSelect(1)
    \/ RbInsert(1)
    \/ RbFinish(1)
    \/ \E backup_id \in BackupIds : Restore(backup_id)
    \/ \E backup_id \in BackupIds : Verify(backup_id)
    \/ \E job_id \in JobIds, keep \in PruneArgs : Prune(job_id, keep)
    \/ \E job_id \in JobIds \cup {AllJobs} : ListBackups(job_id)
    \/ GetStats

Spec == Init /\ [][Next]_vars

\* as Spec, and rows of the chunks table may be removed by hand between calls
NextTamper ==
    \/ Next
    \/ \E i \in 1..Len(chunks) : RemoveChunk(i)

SpecTamper == Init /\ [][NextTamper]_vars

\* one caller, jobs over trees with an unreadable file, a file of no bytes and a
\* path that does not exist
NextFault ==
    \/ \E inp \in FaultJobInputs : CreateJob(inp)
    \/ \E job_id \in JobIds : RbBegin(1, job_id)
    \/ RbSelect(1)
    \/ RbInsert(1)
    \/ RbOpenFail(1)
    \/ RbFinish(1)
    \/ \E backup_id \in BackupIds : Restore(backup_id)
    \/ \E backup_id \in BackupIds : Verify(backup_id)
    \/ \E job_id \in JobIds, keep \in PruneArgs : Prune(job_id, keep)

SpecFault == Init /\ [][NextFault]_vars

\* two processes calling run_backup, their statements interleaved; the jobs are
\* over trees in which no two chunks share the first 8 hex digits of their digests
NextConc ==
    \/ \E inp \in ConcJobInputs : clock + 3 <= MaxConcClock /\ CreateJob(inp)
    \/ \E p \in Procs :
          \/ \E job_id \in JobIds : clock + 3 <= MaxConcClock /\ RbBegin(p, job_id)
          \/ RbSelect(p)
          \/ RbInsert(p)
          \/ RbBusy(p)
          \/ RbFinish(p)

SpecConc == Init /\ [][NextConc]_vars

\* prune's keep_daily, keep_weekly, keep_monthly beside the two callers
OverlapPruneArgs == {<<0, 0, 0>>, <<1, 0, 0>>}

\* two callers of run_backup and a caller of prune
NextOverlap ==
    \/ \E inp \in ConcJobInputs : clock + 3 <= MaxConcClock /\ CreateJob(inp)
    \/ \E p \in Procs :
          \/ \E job_id \in JobIds : clock + 3 <= MaxConcClock /\ RbBegin(p, job_id)
          \/ RbSelect(p)
          \/ RbInsert(p)
          \/ RbBusy(p)
          \/ RbFinish(p)
    \/ \E job_id \in JobIds, keep \in OverlapPruneArgs : Prune(job_id, keep)
    \/ \E job_id \in JobIds, keep \in OverlapPruneArgs : PruneDuring(job_id, keep)
    \/ \E job_id \in JobIds, keep \in OverlapPruneArgs : PruneBusy(job_id, keep)

SpecOverlap == Init /\ [][NextOverlap]_vars

----------------------------------------------------------------------------
(* Vocabulary of the claims *)

RECURSIVE Concat(_)
Concat(seqs) == IF seqs = <<>> THEN <<>> ELSE Head(seqs) \o Concat(Tail(seqs))

\* the job row a backup belongs to (job rows are never deleted)
JobOf(b) == CHOOSE j \in jobs : j.id = b.job_id

\* the files a job's source paths hold
RECURSIVE SourceFiles(_)
SourceFiles(source_paths) ==
    IF source_paths = <<>> THEN <<>>
    ELSE (IF Head(source_paths) \in DOMAIN FS THEN FS[Head(source_paths)] ELSE <<>>)
         \o SourceFiles(Tail(source_paths))

\* the digests a manifest lists
Digests(chunk_ids) == {chunk_ids[i].sha256 : i \in 1..Len(chunk_ids)}

\* the digests of a manifest that have no row in the chunks table
Missing(b) == {d \in Digests(b.chunk_ids) : SelectChunk(chunks, d) = <<>>}

RECURSIVE SumCounts(_)
SumCounts(d) == IF d = <<>> THEN 0 ELSE Head(d).count + SumCounts(Tail(d))

RECURSIVE SumOver(_, _)
SumOver(S, d) ==
    IF S = {} THEN 0
    ELSE LET b == CHOOSE x \in S : TRUE
         IN  DictGet(b.chunk_ids, d, 0) + SumOver(S \ {b}, d)

\* the number of occurrences of a digest across the manifests of the existing backups
Occurrences(d) == SumOver(backups, d)

\* the reference count a chunk row records
RefCount(row) == SumCounts(row.references)

\* the last calls of p and q ran at the same time and both looked for one same
\* digest without finding it
Raced(p, q) ==
    /\ p # q
    /\ ret[p].run \in ret[q].peers
    /\ ret[q].run \in ret[p].peers
    /\ ret[p].missed \cap ret[q].missed # {}

----------------------------------------------------------------------------
(* C1  Round trip: restoring the backup of a source that holds one file with  *)
(* bytes B writes output whose bytes, in manifest order, are exactly B.       *)

RestoredSingleFile ==
    /\ lastOp.op = "restore"
    /\ lastOp.ok
    /\ \E b \in backups : b.id = lastOp.id /\ Len(SourceFiles(JobOf(b).source_paths)) = 1

C1_RoundTrip ==
    RestoredSingleFile =>
        LET b == CHOOSE x \in backups : x.id = lastOp.id
        IN  Concat([i \in 1..Len(lastOp.out) |-> lastOp.out[i].data])
              = SourceFiles(JobOf(b).source_paths)[1].data

----------------------------------------------------------------------------
(* C2  The chunk store holds at most one entry per content digest, in the     *)
(* committed table and in what every connection reads and has inserted.       *)

OnePerDigest(table) ==
    \A i, j \in 1..Len(table) : table[i].sha256 = table[j].sha256 => i = j

C2_OneEntryPerDigest == OnePerDigest(chunks) /\ \A p \in Procs : OnePerDigest(View(p))

\* two calls raced for a digest, one of them recorded its backup, and that backup
\* lists a digest twice that has one entry
C2_Witness ==
    \E p, q \in Procs :
        /\ Raced(p, q)
        /\ ret[p].kind = "ok"
        /\ \E b \in backups :
              /\ b.id = ret[p].backup_id
              /\ \E i \in 1..Len(b.chunk_ids) :
                    /\ b.chunk_ids[i].count > 1
                    /\ Len(SelectChunk(chunks, b.chunk_ids[i].sha256)) = 1

----------------------------------------------------------------------------
(* C3  The reference count recorded for each chunk equals the number of       *)
(* occurrences of its digest across the manifests of the existing backups.    *)

C3_RefCounts ==
    \A i \in 1..Len(chunks) : RefCount(chunks[i]) = Occurrences(chunks[i].sha256)

----------------------------------------------------------------------------
(* C4  No chunk entry exists that no existing backup references.              *)

C4_NoOrphanChunks ==
    \A i \in 1..Len(chunks) : Occurrences(chunks[i].sha256) > 0

----------------------------------------------------------------------------
(* C5  Every digest in the manifest of every surviving backup has a chunk     *)
(* entry, and verify of every surviving backup returns True.                  *)

C5_SurvivorsIntact ==
    \A b \in backups : Missing(b) = {} /\ VerifyResult({b}, chunks)

\* prune has just deleted a backup that shares a digest with a surviving backup
\* of another job
C5_Witness ==
    /\ lastOp.op = "prune"
    /\ \E g \in lastOp.deleted, b \in backups :
          /\ b.job_id # g.job_id
          /\ Digests(b.chunk_ids) \cap Digests(g.chunk_ids) # {}
          /\ VerifyResult({b}, chunks)

----------------------------------------------------------------------------
(* C6  prune leaves exactly: the keep_daily most recent backups of the job,   *)
(* plus, among the remainder, the most recent backup of each of up to         *)
(* keep_weekly calendar weeks, plus at most one backup for each of up to      *)
(* keep_monthly calendar months; every other backup of the job is deleted.    *)

MostRecent(S, k) ==
    {b \in S : Cardinality({o \in S : o.timestamp > b.timestamp}) < k}

\* the most recent backup of each of the k most recent periods that S has backups in
\* (a period is ticks clock ticks long)
OnePerPeriod(S, k, ticks) ==
    LET periods == {b.timestamp \div ticks : b \in S}
        kept == {w \in periods : Cardinality({x \in periods : x > w}) < k}
    IN  {b \in S : /\ (b.timestamp \div ticks) \in kept
                   /\ \A o \in S : (o.timestamp \div ticks) = (b.timestamp \div ticks)
                                      => o.timestamp <= b.timestamp}

PolicyKeep(S, keep_daily, keep_weekly, keep_monthly) ==
    LET daily == MostRecent(S, keep_daily)
        weekly == OnePerPeriod(S \ daily, keep_weekly, TicksPerWeek)
        monthly == OnePerPeriod((S \ daily) \ weekly, keep_monthly, TicksPerMonth)
    IN  daily \cup weekly \cup monthly

C6_RetentionPolicy ==
    lastOp.op = "prune" =>
        LET mine == {b \in backups : b.job_id = lastOp.job}
        IN  mine = PolicyKeep(mine \cup lastOp.deleted,
                              lastOp.keep[1], lastOp.keep[2], lastOp.keep[3])

----------------------------------------------------------------------------
(* C7  verify of an existing backup returns valid exactly when every digest   *)
(* of its manifest has a chunk entry, and otherwise invalid with the list of  *)
(* exactly the manifest digests that are missing.                             *)

Listed(seq) == {seq[i] : i \in 1..Len(seq)}

C7_VerifyStructured ==
    \A b \in backups :
        (lastOp.op = "verify" /\ lastOp.id = b.id) =>
            /\ lastOp.ok = (Missing(b) = {})
            /\ Listed(lastOp.missing) = Missing(b)

----------------------------------------------------------------------------
(* C8  restore never reports success when it cannot reproduce the backup: it  *)
(* fails for an unknown backup identifier, and fails naming the missing       *)
(* digests when a digest of the manifest has no chunk entry.                  *)

C8_RestoreReportsFailure ==
    lastOp.op = "restore" =>
        /\ (\A b \in backups : b.id # lastOp.id) => ~lastOp.ok
        /\ \A b \in backups :
              (b.id = lastOp.id /\ Missing(b) # {}) =>
                  ~lastOp.ok /\ Listed(lastOp.missing) = Missing(b)

----------------------------------------------------------------------------
(* C9  When two backup runs execute concurrently and both encounter the same  *)
(* previously unseen digest, both runs complete, one chunk entry is stored    *)
(* for the digest, and its reference count is the number of occurrences the   *)
(* two runs recorded.                                                         *)

C9_RaceTolerated ==
    \A p, q \in Procs :
        Raced(p, q) =>
            /\ ret[p].kind = "ok"
            /\ ret[q].kind = "ok"
            /\ \A d \in ret[p].missed \cap ret[q].missed :
                  /\ Len(SelectChunk(chunks, d)) = 1
                  /\ \A b1, b2 \in backups :
                        (b1.id = ret[p].backup_id /\ b2.id = ret[q].backup_id) =>
                            RefCount(SelectChunk(chunks, d)[1])
                              = DictGet(b1.chunk_ids, d, 0) + DictGet(b2.chunk_ids, d, 0)

----------------------------------------------------------------------------
(* C10  No file whose relative path matches an exclusion pattern of the job,  *)
(* or lies under a directory that does, is read: a backup's logical size and  *)
(* manifest are those of the job's other files.                               *)

Excluded(rel, patterns) ==
    \E i \in 1..Len(patterns), k \in 1..Len(rel) : rel[k] = patterns[i]

RECURSIVE SumSizes(_)
SumSizes(items) == IF items = <<>> THEN 0 ELSE Head(items).size + SumSizes(Tail(items))

C10_ExclusionsHonoured ==
    \A b \in backups :
        LET job == JobOf(b)
            kept == SelectSeq(SourceFiles(job.source_paths),
                              LAMBDA f : ~Excluded(f.rel, job.exclude_patterns))
            items == FilesItems(kept)
        IN  /\ b.size_bytes = SumSizes(items)
            /\ Digests(b.chunk_ids) = {items[i].sha256 : i \in 1..Len(items)}

----------------------------------------------------------------------------
(* Steps of the one caller's run_backup, for the claims about whole calls *)

\* the step belongs to a run_backup call that reached the walk
RunStep == conn[1].pc # "idle" \/ conn'[1].pc # "idle"

\* the step is the commit of line 126
CommitStep == conn[1].pc # "idle" /\ conn'[1].pc = "idle" /\ ret'[1].kind = "ok"

\* the step is open() raising on a file of the walk
AbortStep ==
    conn[1].pc # "idle" /\ conn'[1].pc = "idle" /\ ret'[1].kind = "PermissionError"

\* C11: a run_backup that meets an unreadable file leaves no trace: from its
\* first step to the raising one the backup records and the chunk store (rows
\* and their reference counts) stay exactly as they were when it started, and
\* no backup record carries the id of the aborted run.
C11_AbortLeavesNoTrace ==
    [][ /\ (RunStep /\ ~CommitStep) => UNCHANGED <<backups, chunks>>
        /\ AbortStep => \A b \in backups' : b.id # ret'[1].run ]_vars

\* an aborted run that had inserted chunks the store did not hold, over a store
\* that held chunks and backups of earlier runs
C11_Witness ==
    /\ ret[1].kind = "PermissionError"
    /\ conn[1].pc = "idle"
    /\ ret[1].missed # {}
    /\ \A d \in ret[1].missed : \A i \in 1..Len(chunks) : chunks[i].sha256 # d
    /\ chunks # <<>>
    /\ backups # {}

\* the one caller's last call was run_backup for job j and it has returned or raised
LastRunOf(j) == lastOp.op = "run_backup" /\ lastOp.job = j.id /\ conn[1].pc = "idle"

\* C12: a job's status is always one of idle, running, completed, failed; it is
\* idle when the job has just been created, completed after a run_backup of the
\* job that completed, and failed after a run_backup of the job that met an
\* unreadable file.
C12_JobStatus ==
    \A j \in jobs :
        /\ j.status \in {"idle", "running", "completed", "failed"}
        /\ (lastOp.op = "create_job" /\ j.id[2] = clock - 1) => j.status = "idle"
        /\ (LastRunOf(j) /\ ret[1].kind = "ok") => j.status = "completed"
        /\ (LastRunOf(j) /\ ret[1].kind = "PermissionError") => j.status = "failed"

\* two manifests list the same digests, each as often
SameManifest(a, b) ==
    /\ Digests(a) = Digests(b)
    /\ \A d \in Digests(a) : DictGet(a, d, 0) = DictGet(b, d, 0)

\* C13: a run_backup of a job that already has a backup (the source files being
\* the same) records a backup whose manifest lists the same digests with the
\* same multiplicities as the earlier one, and leaves the chunk store exactly
\* as it was before the run.
C13_RerunAddsNothing ==
    [][ (CommitStep /\ \E b \in backups : b.job_id = conn[1].job_id) =>
            /\ chunks' = chunks
            /\ conn[1].pending = <<>>
            /\ \A b \in backups : \A n \in backups' \ backups :
                   b.job_id = n.job_id => SameManifest(b.chunk_ids, n.chunk_ids) ]_vars

\* two backups of one job whose manifest lists a digest more than once
C13_Witness ==
    \E a, b \in backups :
        /\ a.id # b.id
        /\ a.job_id = b.job_id
        /\ SameManifest(a.chunk_ids, b.chunk_ids)
        /\ \E d \in Digests(a.chunk_ids) : DictGet(a.chunk_ids, d, 0) > 1

\* the compressed bytes of the chunks a manifest lists, each as often as listed
RECURSIVE StoredSize(_)
StoredSize(chunk_ids) ==
    IF chunk_ids = <<>> THEN 0
    ELSE LET rows == SelectChunk(chunks, Head(chunk_ids).sha256)
         IN  (IF rows = <<>> THEN 0 ELSE Head(chunk_ids).count * rows[1].compressed_size)
             + StoredSize(Tail(chunk_ids))

\* C14: the dedup ratio recorded on a backup is its stored size divided by its
\* logical size, and is 1.0 when the logical size is zero.
C14_DedupRatio ==
    \A b \in backups :
        IF b.size_bytes = 0
          THEN b.dedup_ratio[1] = b.dedup_ratio[2]
          ELSE b.dedup_ratio[1] * b.size_bytes = b.dedup_ratio[2] * StoredSize(b.chunk_ids)

\* C15: a backup record, once created, never changes: every step of every
\* operation (run_backup of any job, restore, verify, list_backups, get_stats,
\* prune, create_job) leaves each existing record as it is, with its manifest,
\* job id, timestamp and size, except that a prune of the record's job may
\* delete the record as a whole.
C15_BackupsImmutable ==
    [][ \A b \in backups :
            \/ b \in backups'
            \/ /\ \A n \in backups' : n.id # b.id
               /\ lastOp'.op = "prune"
               /\ lastOp'.job = b.job_id
               /\ b \in lastOp'.deleted ]_vars

\* a prune has deleted a backup of a job and kept a more recent one of the job
C15_Witness ==
    /\ lastOp.op = "prune"
    /\ \E g \in lastOp.deleted, b \in backups :
          b.job_id = g.job_id /\ b.timestamp > g.timestamp

\* C16: a run_backup and a prune for the same job never overlap: prune never
\* reads or deletes the job's backups while a run_backup of that job is between
\* its start and its commit.  (RbBegin resets lastOp, so a last call that is a
\* prune of the job of a call in progress was made after that call started.)
C16_NoOverlap ==
    \A p \in Procs :
        ~(conn[p].pc # "idle" /\ lastOp.op = "prune" /\ lastOp.job = conn[p].job_id)

KeepTotal(keep) == keep[1] + keep[2] + keep[3]

\* C17: prune(job, keep_daily, keep_weekly, keep_monthly), with n backups of the
\* job before the call and N = keep_daily + keep_weekly + keep_monthly, deletes
\* backups of that job only, keeps its min(n, N) most recent ones, returns the
\* number it deleted, max(0, n - N), and leaves the backups of every other job
\* as they were; a second prune with the same arguments straight after it
\* deletes nothing and returns 0.  (With one caller every step that ends with
\* lastOp.op = "prune" is a prune call.)
C17_PruneFrame ==
    [][ lastOp'.op = "prune" =>
          LET before == {b \in backups : b.job_id = lastOp'.job}
              n == Cardinality(before)
              N == KeepTotal(lastOp'.keep)
          IN  /\ backups' \subseteq backups
              /\ backups \ backups' \subseteq before
              /\ {b \in backups : b.job_id # lastOp'.job} \subseteq backups'
              /\ {b \in backups' : b.job_id = lastOp'.job}
                     = MostRecent(before, IF n < N THEN n ELSE N)
              /\ lastOp'.n = Cardinality(backups \ backups')
              /\ lastOp'.n = (IF n > N THEN n - N ELSE 0)
              /\ (lastOp.op = "prune" /\ lastOp.job = lastOp'.job
                     /\ lastOp.keep = lastOp'.keep)
                    => (lastOp'.n = 0 /\ backups' = backups) ]_vars

\* a prune that deleted backups of its job beside a backup of another job
C17_Witness ==
    /\ lastOp.op = "prune"
    /\ lastOp.n > 0
    /\ lastOp.n = Cardinality(lastOp.deleted)
    /\ \E b \in backups : b.job_id # lastOp.job

\* C18: run_backup with a job id that no job row has returns None and changes
\* nothing: no backup record is created, no chunk row is added, no job row is
\* modified, and no walk is started.  (With one caller, a step from an idle
\* caller that ends with lastOp naming run_backup is the call itself.)
C18_UnknownJob ==
    [][ (/\ conn[1].pc = "idle"
         /\ lastOp'.op = "run_backup"
         /\ \A j \in jobs : j.id # lastOp'.job) =>
            /\ ret'[1].kind = "None"
            /\ ret'[1].backup_id = NoBackup
            /\ UNCHANGED <<jobs, backups, chunks, conn, writer>> ]_vars

\* run_backup of an unknown job has returned None over a store that holds jobs,
\* backups and chunks
C18_Witness ==
    /\ lastOp.op = "run_backup"
    /\ lastOp.job = NoJob
    /\ ret[1].kind = "None"
    /\ jobs # {}
    /\ backups # {}
    /\ chunks # <<>>

\* the digests of the chunks of the files under a job's source paths
JobDigests(j) ==
    {Items[j.source_paths][i].sha256 : i \in 1..Len(Items[j.source_paths])}

\* C19: chunks with different digests are stored as separate entries and do not
\* interfere: a run_backup of a job (one caller, readable files) stores every
\* digest of the job's files in an entry of its own and completes, whatever
\* digests the store or the run already holds, also one that has the same
\* leading 8 hex characters.
C19_DistinctDigestsStored ==
    \A j \in jobs :
        LastRunOf(j) =>
            /\ ret[1].kind = "ok"
            /\ \A d \in JobDigests(j) : Len(SelectChunk(chunks, d)) = 1

====
